---- MODULE Spec2Model ----
(***************************************************************************)
(* duo: typed Fields over raw DynamoDB items, and the Table handle that    *)
(* keeps a side cache next to the store (src/duo.py).                      *)
(*                                                                         *)
(* Python values are written as tagged records, so that a raw attribute    *)
(* map can hold strings, numbers and None side by side.  The store and the *)
(* cache are the two collaborators of the Table handle: each is a map, and *)
(* every call to the cache may fail (raise).                               *)
(***************************************************************************)
EXTENDS Integers, Sequences, FiniteSets, TLC

VARIABLES table, store, cache, item, ret, hist, probe, field, enums, callers, db,
          registry

vars == <<table, store, cache, item, ret, hist, probe, field, enums, callers, db,
         registry>>

(***************************************************************************)
(* Bounds.                                                                 *)
(***************************************************************************)
\* The values an attribute given to create() takes: 1..MaxValue.
MaxValue == 1
\* The members declared on one enumerated type: at most MaxMembers.
MaxMembers == 2

(***************************************************************************)
(* Python values.                                                          *)
(***************************************************************************)
None == [t |-> "none", v |-> 0]
Str(s) == [t |-> "str", v |-> s]
Num(n) == [t |-> "int", v |-> n]

\* bool(v); a member of an enumerated type is as true as its index
\* (EnumMeta.__nonzero__).
Truthy(v) ==
    CASE v.t = "none" -> FALSE
      [] v.t = "int" -> v.v # 0
      [] v.t = "str" -> v.v # ""
      [] v.t = "member" -> v.v.index # 0
      [] OTHER -> TRUE

\* '%s' % v
Format(v) ==
    CASE v.t = "none" -> "None"
      [] v.t = "int" -> ToString(v.v)
      [] OTHER -> v.v

\* a or b
Or(a, b) == IF Truthy(a) THEN a ELSE b

\* None as the name of an attribute (range_key_name = None).
NoAttr == ""

(***************************************************************************)
(* Maps (dict): the raw attribute map of an Item, the store, the cache.    *)
(***************************************************************************)
EmptyMap == [x \in {} |-> None]
MapSet(m, k, val) == [x \in (DOMAIN m) \cup {k} |-> IF x = k THEN val ELSE m[x]]
MapDel(m, k) == [x \in (DOMAIN m) \ {k} |-> m[x]]
\* m.get(k, default)
MapGet(m, k, default) == IF k \in DOMAIN m THEN m[k] ELSE default

(***************************************************************************)
(* The declared table shapes.  A Table subclass declares table_name,       *)
(* hash_key_name and range_key_name; its Item shape declares               *)
(* cache_duration; the handle gets the cache of the DynamoDB manager.      *)
(***************************************************************************)
TableShape(range_key_name, cache_duration, has_cache) ==
    [ table_name     |-> Str("t"),
      cache_prefix   |-> None,
      hash_key_name  |-> "id",
      range_key_name |-> range_key_name,
      cache_duration |-> cache_duration,
      cache          |-> has_cache ]

TableShapes ==
    { TableShape(r, d, c) : r \in {NoAttr, "ts"}, d \in {None, Num(60)}, c \in BOOLEAN }

\* Keys the callers use.  On the table with a range key, two of its keys
\* differ only in where the underscore falls, and one range key is the
\* number 0.
HashKeys == {Str("a"), Str("a_b")}
RangeKeys == {Str("b_c"), Str("c"), Num(0)}

KeyInputs(tb) ==
    IF tb.range_key_name = NoAttr
    THEN { <<h, None>> : h \in HashKeys }
    ELSE { <<Str("a"), Str("b_c")>>, <<Str("a_b"), Str("c")>>,
           <<Str("a"), Num(0)>>, <<Str("a"), None>> }

\* Attributes given to create().
AttrInputs == { EmptyMap } \cup { MapSet(EmptyMap, "visits", Num(n)) : n \in 1..MaxValue }

(***************************************************************************)
(* Table._get_cache_key.  sha224 is taken to be free of collisions: the    *)
(* digest is written as the text it was computed from, wrapped.            *)
(***************************************************************************)
sha224(text) == "sha224(" \o text \o ")"

_get_cache_key(cls, hash_key, range_key) ==
    LET prefix == Format(Or(cls.cache_prefix, cls.table_name))
    IN  IF range_key = None
        THEN sha224(prefix \o "_" \o Format(hash_key))
        ELSE sha224(prefix \o "_" \o Format(hash_key) \o "_" \o Format(range_key))

(***************************************************************************)
(* DynamoDB.__getitem__: the handle of a table name.  Its class is the     *)
(* Table subclass declared for the name, or Table itself for a name no     *)
(* subclass declares (Table._table_types is a defaultdict); the name is    *)
(* then set on the handle, not on its class.  _get_cache_key is a          *)
(* classmethod: it reads the class.                                        *)
(***************************************************************************)
DeclaredTables == {"t", "t_a"}
TableNames == DeclaredTables \cup {"x", "y"}

\* class Table: table_name = None, cache_prefix = None
FallbackTable == [table_name |-> None, cache_prefix |-> None]

_table_types(table_name) ==
    IF table_name \in DeclaredTables
    THEN [table_name |-> Str(table_name), cache_prefix |-> None]
    ELSE FallbackTable

DynamoDB__getitem__(table_name) ==
    [table_name |-> Str(table_name), cls |-> _table_types(table_name)]

\* The cache key of (table, hash_key, range_key).
CacheKeyOf(triple) ==
    _get_cache_key(DynamoDB__getitem__(triple[1]).cls, triple[2], triple[3])

ProbeHashKeys == {Str("a"), Str("a_b"), Str("b")}
ProbeRangeKeys == {None, Str("b"), Str("c")}
Triples == TableNames \X ProbeHashKeys \X ProbeRangeKeys

NoProbe == [set |-> FALSE, a |-> <<"", None, None>>, b |-> <<"", None, None>>, ka |-> "", kb |-> ""]

(***************************************************************************)
(* Items.                                                                  *)
(***************************************************************************)
Unbound == [bound |-> FALSE, data |-> EmptyMap, is_new |-> FALSE]

\* Table._extend: the Item gets is_new and the handle's cache, table and
\* key names; the handle is the one handle of the model.
_extend(data, is_new) == [bound |-> TRUE, data |-> data, is_new |-> is_new]

\* Table.create
create(tb, hash_key, range_key, kwargs) ==
    LET d1 == MapSet(kwargs, tb.hash_key_name, hash_key)
        d2 == IF tb.range_key_name # NoAttr /\ Truthy(range_key)
              THEN MapSet(d1, tb.range_key_name, range_key)
              ELSE d1
    IN  _extend(d2, TRUE)

\* The key of an Item in the store: its hash key and, on a table with a
\* range key, its range key attribute.
dynamo_key(tb, data) ==
    <<MapGet(data, tb.hash_key_name, None),
      IF tb.range_key_name = NoAttr THEN None ELSE MapGet(data, tb.range_key_name, None)>>

\* The store takes a key only when every key attribute of the schema is in it.
KeyComplete(tb, data) ==
    /\ tb.hash_key_name \in DOMAIN data
    /\ tb.range_key_name # NoAttr => tb.range_key_name \in DOMAIN data

\* The cache key an Item computes for itself (_set_cache, _delete_cache).
ItemCacheKey(tb, data) ==
    _get_cache_key(tb, data[tb.hash_key_name], MapGet(data, tb.range_key_name, None))

(***************************************************************************)
(* Enumerated types (EnumMeta).  A member is a class registered with its   *)
(* type in order of definition; its name is set on the metaclass, which    *)
(* all enumerated types share.                                             *)
(***************************************************************************)
\* No enumerated type declared.
NoEnums == [members |-> EmptyMap, names |-> EmptyMap]

\* class <cls>(object): __metaclass__ = EnumMeta  (EnumMeta.__init__, the
\* branch of the type itself: cls.members = []).
DeclareType(e, cls) == [e EXCEPT !.members = MapSet(e.members, cls, <<>>)]

\* class <name>(<cls>): pass  (EnumMeta.__init__, the branch of a member: it
\* is appended to cls.members, its index is its place there, and its name is
\* set on the metaclass).
DeclareMember(e, cls, name) ==
    [ members |-> MapSet(e.members, cls, Append(e.members[cls], name)),
      names   |-> MapSet(e.names, name, [enum |-> cls, index |-> Len(e.members[cls])]) ]

\* The enumerated types the Field declarations use: Access with NO_ACCESS and
\* FULL_ACCESS, then Color with RED, GREEN and BLUE.
DeclaredEnums ==
    LET a0 == DeclareType(NoEnums, "Access")
        a1 == DeclareMember(a0, "Access", "NO_ACCESS")
        a2 == DeclareMember(a1, "Access", "FULL_ACCESS")
        c0 == DeclareType(a2, "Color")
        c1 == DeclareMember(c0, "Color", "RED")
        c2 == DeclareMember(c1, "Color", "GREEN")
    IN  DeclareMember(c2, "Color", "BLUE")

\* cls.members of every enumerated type declared so far.
members == enums.members

\* The member that EnumMeta.__init__ registers at cls.members[index].
Member(cls, index) ==
    [t |-> "member", v |-> [enum |-> cls, index |-> index, key |-> members[cls][index + 1]]]

\* The names EnumMeta.__init__ has set on the metaclass, whatever the type.
MemberNames == DOMAIN enums.names

\* What a call leaves: the value it returns or the exception it raises.
Returned(val) == [raised |-> "none", val |-> val]
Raised(exception) == [raised |-> exception, val |-> None]

\* cls.members[i] of a Python list: a negative i counts from the end.
ListGet(cls, i) ==
    LET n == Len(members[cls])
    IN  IF i >= 0 /\ i < n THEN Returned(Member(cls, i))
        ELSE IF i < 0 /\ i >= 0 - n THEN Returned(Member(cls, i + n))
        ELSE Raised("IndexError")

\* getattr(cls, name), for a name that is no other attribute of the class:
\* the attribute of that name on the metaclass, which is the member that was
\* declared last under the name, in this type or in another one.
GetAttr(cls, name) ==
    IF name \in MemberNames
    THEN Returned(Member(enums.names[name].enum, enums.names[name].index))
    ELSE Raised("AttributeError")

\* EnumMeta.__getitem__
EnumMeta__getitem__(cls, idx) ==
    CASE idx.t = "member" -> ListGet(cls, idx.v.index)
      [] idx.t = "int" -> ListGet(cls, idx.v)
      [] idx.t = "str" ->
           LET got == GetAttr(cls, idx.v)
           IN  IF got.raised = "none" THEN got ELSE Raised("KeyError")
      [] OTHER -> Raised("KeyError")

(***************************************************************************)
(* Typed values of the Field variants.  A date is written as its ordinal, *)
(* a datetime as its seconds since the epoch and its microseconds (local   *)
(* time is taken to be UTC), a Record that a ForeignKeyField refers to as  *)
(* its table name and key, and the JSON text of such a reference as the    *)
(* reference it spells.                                                    *)
(***************************************************************************)
\* datetime.date(1970, 1, 1).toordinal()
EpochOrdinal == 719163
SecondsPerDay == 86400

Date(ordinal) == [t |-> "date", v |-> ordinal]
DateTime(sec, usec) == [t |-> "datetime", v |-> [sec |-> sec, usec |-> usec]]
ItemRef(table_name, key) == [t |-> "item", v |-> [table |-> table_name, key |-> key]]
Json(table_name, key) == [t |-> "json", v |-> [table |-> table_name, key |-> key]]

\* The texts int() reads as a number.
DecimalTexts == { ToString(n) : n \in 0..9 }

\* unicode(value)
unicode(value) ==
    CASE value.t = "member" -> Returned(Str(value.v.key))
      [] value.t = "json" -> Returned(value)
      [] value.t = "date" -> Returned(Str("date " \o ToString(value.v)))
      [] value.t = "datetime" ->
           Returned(Str("datetime " \o ToString(value.v.sec) \o "." \o ToString(value.v.usec)))
      [] value.t = "item" -> Returned(Str("<Item>"))
      [] OTHER -> Returned(Str(Format(value)))

\* int(value)
int(value) ==
    CASE value.t = "int" -> Returned(value)
      [] value.t = "member" -> Returned(Num(value.v.index))
      [] value.t = "str" ->
           IF value.v \in DecimalTexts
           THEN Returned(Num(CHOOSE n \in 0..9 : ToString(n) = value.v))
           ELSE Raised("ValueError")
      [] value.t = "json" -> Raised("ValueError")
      [] OTHER -> Raised("TypeError")

\* value == 0; a member compares as its index (EnumMeta.__cmp__).
IsZero(value) ==
    \/ value.t = "int" /\ value.v = 0
    \/ value.t = "member" /\ value.v.index = 0

(***************************************************************************)
(* Fields.  A Field is a data descriptor declared on an Item shape, which  *)
(* tells it its name; it keeps no value of its own and works on the raw    *)
(* attribute map of the Item it is used on.                                *)
(***************************************************************************)
\* class NONE: no default given.
NONE == [t |-> "NONE", v |-> 0]

\* A default that is callable and no enumerated type: written as the value
\* it returns for the Item.
Callable(value) == [t |-> "callable", v |-> value]

\* Field.__init__ and _ChoiceMixin.__init__, and the name _TableMeta.__init__
\* gives the Field.
Field(name, kind, default, readonly) ==
    [ name      |-> name,
      kind      |-> kind,
      default   |-> default,
      readonly  |-> readonly,
      enum_type |-> IF kind \in {"Choice", "Enum"} THEN "Access" ELSE "" ]

NoField == Field(NoAttr, "", NONE, FALSE)

\* to_python of the Field variants.
to_python(f, value) ==
    CASE f.kind \in {"Unicode", "Integer"} -> Returned(value)
      [] f.kind \in {"Choice", "Enum"} -> EnumMeta__getitem__(f.enum_type, value)
      [] f.kind = "Date" ->
           IF value = None \/ IsZero(value) THEN Returned(None)
           ELSE IF value.t = "int"
           THEN IF value.v >= 1 THEN Returned(Date(value.v)) ELSE Raised("ValueError")
           ELSE Raised("TypeError")
      [] f.kind = "DateTime" ->
           IF value = None \/ IsZero(value) THEN Returned(None)
           ELSE IF value.t = "int" THEN Returned(DateTime(value.v, 0))
           ELSE Raised("TypeError")
      [] f.kind = "ForeignKey" ->
           CASE value.t = "item" -> Returned(value)
             [] value.t = "json" -> Returned(ItemRef(value.v.table, value.v.key))
             [] value.t = "str" /\ value.v \notin DecimalTexts -> Raised("ValueError")
             [] OTHER -> Raised("TypeError")

\* from_python of the Field variants.
from_python(f, value) ==
    CASE f.kind = "Unicode" -> unicode(value)
      [] f.kind = "Integer" -> int(value)
      [] f.kind = "Choice" ->
           LET got == EnumMeta__getitem__(f.enum_type, value)
           IN  IF got.raised = "none" THEN unicode(got.val) ELSE got
      [] f.kind = "Enum" ->
           LET got == EnumMeta__getitem__(f.enum_type, value)
           IN  IF got.raised = "none" THEN int(got.val) ELSE got
      [] f.kind = "Date" ->
           IF value = None \/ IsZero(value) THEN Returned(Num(0))
           ELSE IF value.t = "date" THEN Returned(Num(value.v))
           ELSE IF value.t = "datetime"
           THEN Returned(Num(EpochOrdinal + (value.v.sec \div SecondsPerDay)))
           ELSE Raised("ValueError")
      [] f.kind = "DateTime" ->
           IF value = None \/ IsZero(value) THEN Returned(Num(0))
           ELSE IF value.t = "datetime" THEN Returned(Num(value.v.sec))
           ELSE IF value.t = "date"
           THEN Returned(Num((value.v - EpochOrdinal) * SecondsPerDay))
           ELSE Raised("ValueError")
      [] f.kind = "ForeignKey" ->
           IF value.t = "item" THEN Returned(Json(value.v.table, value.v.key))
           ELSE Raised("AttributeError")

\* What a Field access leaves: the exception it raised ("none" when it
\* returned), the value it returned and the raw attribute map.
Accessed(raised, result, data) == [raised |-> raised, result |-> result, data |-> data]

\* The Item's answer to obj[name] and del obj[name] for a name it does not
\* hold is the Item base class's: a KeyError (a dict), or None and nothing
\* done (boto.dynamodb2.items.Item).
MissingLookups == {"KeyError", "None"}

\* Field.__set__ without the readonly branch.
Field__set__unguarded(f, tb, data, value) ==
    IF f.name = tb.hash_key_name \/ f.name = tb.range_key_name
    THEN Accessed("AttributeError", None, data)
    ELSE IF value = None
    THEN Accessed("none", None, IF f.name \in DOMAIN data THEN MapDel(data, f.name) ELSE data)
    ELSE LET wire == from_python(f, value)
         IN  IF wire.raised = "none"
             THEN Accessed("none", None, MapSet(data, f.name, wire.val))
             ELSE Accessed(wire.raised, None, data)

\* Field.__set__
Field__set__(f, tb, data, value) ==
    IF f.name = tb.hash_key_name THEN Accessed("AttributeError", None, data)
    ELSE IF f.name = tb.range_key_name THEN Accessed("AttributeError", None, data)
    ELSE IF f.readonly THEN Accessed("AttributeError", None, data)
    ELSE IF value = None
    THEN Accessed("none", None, IF f.name \in DOMAIN data THEN MapDel(data, f.name) ELSE data)
    ELSE LET wire == from_python(f, value)
         IN  IF wire.raised = "none"
             THEN Accessed("none", None, MapSet(data, f.name, wire.val))
             ELSE Accessed(wire.raised, None, data)

\* Field.__delete__
Field__delete__(f, tb, data, missing) ==
    IF f.name = tb.hash_key_name THEN Accessed("AttributeError", None, data)
    ELSE IF f.name = tb.range_key_name THEN Accessed("AttributeError", None, data)
    ELSE IF f.readonly THEN Accessed("AttributeError", None, data)
    ELSE IF f.name \in DOMAIN data THEN Accessed("none", None, MapDel(data, f.name))
    ELSE IF missing = "KeyError" THEN Accessed("KeyError", None, data)
    ELSE Accessed("none", None, data)

\* The default of a Field: the value a producer returns, or the value given.
ResolveDefault(f) == IF f.default.t = "callable" THEN f.default.v ELSE f.default

\* Field.__get__
Field__get__(f, tb, data, missing) ==
    LET raw == IF f.name \in DOMAIN data THEN Returned(data[f.name])
               ELSE IF missing = "KeyError" THEN Raised("KeyError")
               ELSE Returned(None)
        typed == IF raw.raised = "none" THEN to_python(f, raw.val) ELSE raw
    IN  IF typed.raised = "none" THEN Accessed("none", typed.val, data)
        ELSE IF typed.raised # "KeyError" THEN Accessed(typed.raised, None, data)
        ELSE IF f.default = NONE THEN Accessed("none", None, data)
        ELSE LET value == to_python(f, ResolveDefault(f))
             IN  IF value.raised # "none" THEN Accessed(value.raised, None, data)
                 ELSE IF Truthy(value.val)
                 THEN LET populated == Field__set__(f, tb, data, value.val)
                      IN  IF populated.raised = "none"
                          THEN Accessed("none", value.val, populated.data)
                          ELSE populated
                 ELSE Accessed("none", value.val, data)

(***************************************************************************)
(* The collaborators.  The store is the authority: save() writes the row   *)
(* or refuses it (a falsy result), delete() removes it, a read finds the   *)
(* row or not; a key the schema does not accept is an error of the store.  *)
(* A call to the cache either answers or raises.                           *)
(***************************************************************************)
\* boto's Item.save(), called by Item.put
save(tb, st, data, accepted) ==
    IF ~KeyComplete(tb, data)
    THEN [store |-> st, result |-> FALSE, raised |-> TRUE]
    ELSE IF accepted
         THEN [store |-> MapSet(st, dynamo_key(tb, data), data), result |-> TRUE, raised |-> FALSE]
         ELSE [store |-> st, result |-> FALSE, raised |-> FALSE]

\* boto's Item.delete(), called by Item.delete
store_delete(tb, st, data) ==
    IF ~KeyComplete(tb, data)
    THEN [store |-> st, result |-> FALSE, raised |-> TRUE]
    ELSE [store |-> MapDel(st, dynamo_key(tb, data)), result |-> TRUE, raised |-> FALSE]

\* _set_cache that derives the cache key from the hash key alone.
_set_cache_hash_only(tb, c, data, fails) ==
    IF tb.cache /\ tb.cache_duration # None
    THEN IF fails
         THEN [cache |-> c, raised |-> TRUE, wrote |-> ""]
         ELSE [cache |-> MapSet(c, _get_cache_key(tb, data[tb.hash_key_name], None), data),
               raised |-> FALSE,
               wrote |-> _get_cache_key(tb, data[tb.hash_key_name], None)]
    ELSE [cache |-> c, raised |-> FALSE, wrote |-> ""]

\* _set_cache that writes whenever there is a cache handle.
_set_cache_any_duration(tb, c, data, fails) ==
    IF tb.cache
    THEN IF fails
         THEN [cache |-> c, raised |-> TRUE, wrote |-> ""]
         ELSE [cache |-> MapSet(c, ItemCacheKey(tb, data), data), raised |-> FALSE,
               wrote |-> ItemCacheKey(tb, data)]
    ELSE [cache |-> c, raised |-> FALSE, wrote |-> ""]

\* The duration _set_cache hands to cache.set: the Record's cache_duration,
\* or the cache_duration attribute of the table `ttl` when the Record has
\* none.
set_duration(tb, ttl) == IF tb.cache_duration # None THEN tb.cache_duration ELSE ttl

\* Item._set_cache
_set_cache(tb, c, data, fails) ==
    IF tb.cache /\ tb.cache_duration # None
    THEN IF fails
         THEN [cache |-> c, raised |-> TRUE, wrote |-> ""]
         ELSE [cache |-> MapSet(c, ItemCacheKey(tb, data), data), raised |-> FALSE,
               wrote |-> ItemCacheKey(tb, data)]
    ELSE [cache |-> c, raised |-> FALSE, wrote |-> ""]

\* Item._delete_cache
_delete_cache(tb, c, data, fails) ==
    IF tb.cache
    THEN IF fails
         THEN [cache |-> c, raised |-> TRUE]
         ELSE [cache |-> MapDel(c, ItemCacheKey(tb, data)), raised |-> FALSE]
    ELSE [cache |-> c, raised |-> FALSE]

\* What a handler leaves behind: the store, the cache, the Item it worked on
\* or returns, its return value, the exception it raised ("none" when it
\* returned), what the store answered, and whether a cache call failed.
Outcome(st, c, it, kind, result, raised, storeResult, cacheFailed, wrote) ==
    [ store |-> st, cache |-> c, item |-> it, kind |-> kind, result |-> result,
      raised |-> raised, storeResult |-> storeResult, cacheFailed |-> cacheFailed,
      wrote |-> wrote ]

\* put() that lets the cache's exception out.
put_uncaught(tb, st, c, it, accepted, fails) ==
    LET sv == save(tb, st, it.data, accepted)
    IN  IF sv.raised
        THEN Outcome(st, c, it, "raise", FALSE, "StoreError", FALSE, FALSE, "")
        ELSE IF ~sv.result
        THEN Outcome(sv.store, c, it, "bool", FALSE, "none", sv.result, FALSE, "")
        ELSE LET it2 == [it EXCEPT !.is_new = FALSE]
                 sc == _set_cache(tb, c, it2.data, fails)
             IN  IF sc.raised
                 THEN Outcome(sv.store, sc.cache, it2, "raise", FALSE, "CacheError", sv.result,
                              TRUE, "")
                 ELSE Outcome(sv.store, sc.cache, it2, "bool", sv.result, "none", sv.result,
                              FALSE, sc.wrote)

\* put() that clears is_new before it looks at the store's result.
put_flag_first(tb, st, c, it, accepted, fails) ==
    LET sv == save(tb, st, it.data, accepted)
        it2 == [it EXCEPT !.is_new = FALSE]
    IN  IF sv.raised
        THEN Outcome(st, c, it, "raise", FALSE, "StoreError", FALSE, FALSE, "")
        ELSE IF ~sv.result
        THEN Outcome(sv.store, c, it2, "bool", FALSE, "none", sv.result, FALSE, "")
        ELSE LET sc == _set_cache(tb, c, it2.data, fails)
             IN  Outcome(sv.store, sc.cache, it2, "bool", sv.result, "none", sv.result,
                         sc.raised, sc.wrote)

\* put() that writes the store and leaves the cache as it is.
put_no_write_through(tb, st, c, it, accepted, fails) ==
    LET sv == save(tb, st, it.data, accepted)
    IN  IF sv.raised
        THEN Outcome(st, c, it, "raise", FALSE, "StoreError", FALSE, FALSE, "")
        ELSE IF ~sv.result
        THEN Outcome(sv.store, c, it, "bool", FALSE, "none", sv.result, FALSE, "")
        ELSE Outcome(sv.store, c, [it EXCEPT !.is_new = FALSE], "bool", sv.result, "none",
                     sv.result, FALSE, "")

\* Item.put
put(tb, st, c, it, accepted, fails) ==
    LET sv == save(tb, st, it.data, accepted)
    IN  IF sv.raised
        THEN Outcome(st, c, it, "raise", FALSE, "StoreError", FALSE, FALSE, "")
        ELSE IF ~sv.result
        THEN Outcome(sv.store, c, it, "bool", FALSE, "none", sv.result, FALSE, "")
        ELSE LET it2 == [it EXCEPT !.is_new = FALSE]
                 sc == _set_cache(tb, c, it2.data, fails)
             IN  Outcome(sv.store, sc.cache, it2, "bool", sv.result, "none", sv.result,
                         sc.raised, sc.wrote)

\* delete() that leaves the cache entry in place.
delete_no_invalidate(tb, st, c, it, fails) ==
    LET sd == store_delete(tb, st, it.data)
    IN  IF sd.raised
        THEN Outcome(st, c, it, "raise", FALSE, "StoreError", FALSE, FALSE, "")
        ELSE Outcome(sd.store, c, [it EXCEPT !.is_new = TRUE], "bool", sd.result, "none",
                     sd.result, FALSE, "")

\* delete() that leaves is_new as it was.
delete_flag_kept(tb, st, c, it, fails) ==
    LET sd == store_delete(tb, st, it.data)
    IN  IF sd.raised
        THEN Outcome(st, c, it, "raise", FALSE, "StoreError", FALSE, FALSE, "")
        ELSE LET dc == _delete_cache(tb, c, it.data, fails)
             IN  Outcome(sd.store, dc.cache, it, "bool", sd.result, "none", sd.result,
                         dc.raised, "")

\* Item.delete
delete(tb, st, c, it, fails) ==
    LET sd == store_delete(tb, st, it.data)
    IN  IF sd.raised
        THEN Outcome(st, c, it, "raise", FALSE, "StoreError", FALSE, FALSE, "")
        ELSE LET it2 == [it EXCEPT !.is_new = TRUE]
                 dc == _delete_cache(tb, c, it2.data, fails)
             IN  Outcome(sd.store, dc.cache, it2, "bool", sd.result, "none", sd.result,
                         dc.raised, "")

\* Table._get_cache
_get_cache(tb, c, hash_key, range_key, fails) ==
    IF ~tb.cache
    THEN [raised |-> FALSE, cached |-> Unbound]
    ELSE IF fails
         THEN [raised |-> TRUE, cached |-> Unbound]
         ELSE LET key == _get_cache_key(tb, hash_key, range_key)
              IN  IF key \in DOMAIN c
                  THEN [raised |-> FALSE, cached |-> _extend(c[key], FALSE)]
                  ELSE [raised |-> FALSE, cached |-> Unbound]

\* get_item that hands the row back and leaves the cache as it is.
get_item_no_cache_write(tb, st, c, hash_key, range_key, fails) ==
    LET d1 == MapSet(EmptyMap, tb.hash_key_name, hash_key)
        data == IF tb.range_key_name # NoAttr /\ Truthy(range_key)
                THEN MapSet(d1, tb.range_key_name, range_key)
                ELSE d1
    IN  IF ~KeyComplete(tb, data)
        THEN Outcome(st, c, Unbound, "raise", FALSE, "StoreError", FALSE, FALSE, "")
        ELSE IF dynamo_key(tb, data) \notin DOMAIN st
        THEN Outcome(st, c, Unbound, "raise", FALSE, "ItemNotFound", FALSE, FALSE, "")
        ELSE Outcome(st, c, _extend(st[dynamo_key(tb, data)], FALSE), "item", FALSE, "none",
                     TRUE, FALSE, "")

\* Table.get_item
get_item(tb, st, c, hash_key, range_key, fails) ==
    LET d1 == MapSet(EmptyMap, tb.hash_key_name, hash_key)
        data == IF tb.range_key_name # NoAttr /\ Truthy(range_key)
                THEN MapSet(d1, tb.range_key_name, range_key)
                ELSE d1
    IN  IF ~KeyComplete(tb, data)
        THEN Outcome(st, c, Unbound, "raise", FALSE, "StoreError", FALSE, FALSE, "")
        ELSE IF dynamo_key(tb, data) \notin DOMAIN st
        THEN Outcome(st, c, Unbound, "raise", FALSE, "ItemNotFound", FALSE, FALSE, "")
        ELSE LET it == _extend(st[dynamo_key(tb, data)], FALSE)
                 sc == _set_cache(tb, c, it.data, fails)
             IN  IF sc.raised
                 THEN Outcome(st, c, Unbound, "raise", FALSE, "CacheError", TRUE, TRUE, "")
                 ELSE Outcome(st, sc.cache, it, "item", FALSE, "none", TRUE, FALSE, sc.wrote)

\* __getitem__ that lets ItemNotFound out.
getitem_not_found_raises(tb, st, c, key, lookupFails, setFails) ==
    LET hash_key == key[1]
        range_key == key[2]
        gc == _get_cache(tb, c, hash_key, range_key, lookupFails)
    IN  IF gc.raised
        THEN Outcome(st, c, Unbound, "raise", FALSE, "CacheError", FALSE, TRUE, "")
        ELSE IF gc.cached.bound
        THEN Outcome(st, c, gc.cached, "item", FALSE, "none", FALSE, FALSE, "")
        ELSE IF range_key = None /\ tb.range_key_name # NoAttr
        THEN Outcome(st, c, Unbound, "query", FALSE, "none", TRUE, FALSE, "")
        ELSE get_item(tb, st, c, hash_key, range_key, setFails)

\* Table.__getitem__ ; key is (hash_key, range_key), range_key None for a
\* key that is no tuple.  storeResult tells whether the store was read.
__getitem__(tb, st, c, key, lookupFails, setFails) ==
    LET hash_key == key[1]
        range_key == key[2]
        gc == _get_cache(tb, c, hash_key, range_key, lookupFails)
    IN  IF gc.raised
        THEN Outcome(st, c, Unbound, "raise", FALSE, "CacheError", FALSE, TRUE, "")
        ELSE IF gc.cached.bound
        THEN Outcome(st, c, gc.cached, "item", FALSE, "none", FALSE, FALSE, "")
        ELSE IF range_key = None /\ tb.range_key_name # NoAttr
        THEN Outcome(st, c, Unbound, "query", FALSE, "none", TRUE, FALSE, "")
        ELSE LET g == get_item(tb, st, c, hash_key, range_key, setFails)
             IN  IF g.raised = "ItemNotFound"
                 THEN Outcome(st, c, create(tb, hash_key, range_key, EmptyMap), "item", FALSE,
                              "none", TRUE, FALSE, "")
                 ELSE g

(***************************************************************************)
(* The caller's view.  item is the Record the caller holds (Items share    *)
(* nothing but the store and the cache, and every handler works on one     *)
(* Item).  ret is what the last call did: the operation, the key it was    *)
(* about and the handler's outcome.  hist remembers, for every key with a  *)
(* put that succeeded and no put or delete of that key since: the          *)
(* attributes the put persisted, whether its cache write-through failed,   *)
(* and whether another key's Record has since been written under the same  *)
(* cache key.                                                              *)
(***************************************************************************)
NoKey == <<None, None>>

Ret(op, key, o, after) ==
    [ op |-> op, key |-> key, kind |-> o.kind, result |-> o.result,
      raised |-> o.raised, storeResult |-> o.storeResult, cacheFailed |-> o.cacheFailed,
      after |-> after ]

NoOutcome == Outcome(EmptyMap, EmptyMap, Unbound, "none", FALSE, "none", FALSE, FALSE, "")

\* hist after a Record of key `key` was written into the cache under `wrote`
\* ("" when nothing was written).
Overwritten(h, key, wrote) ==
    [k \in DOMAIN h |->
        IF k # key /\ wrote = ItemCacheKey(table, h[k].data)
        THEN [h[k] EXCEPT !.dirty = TRUE]
        ELSE h[k]]

\* The last call, when it was a delete that returned: how its cache
\* invalidation went, for the call that follows on the same key.
AfterDelete(key) ==
    IF ret.op = "delete" /\ ret.raised = "none" /\ ret.key = key
    THEN IF ret.cacheFailed THEN "failed" ELSE "clean"
    ELSE "no"

(***************************************************************************)
(* Callers.  Two callers use the one handle, each with Records of its own; *)
(* a caller is idle, or inside a call between two of its steps, with the   *)
(* Record the call works on.                                               *)
(***************************************************************************)
Callers == {"c1", "c2"}
Idle == [at |-> "idle", data |-> EmptyMap]
NoCallers == [p \in Callers |-> Idle]

\* DynamoDB.__init__: no _connection attribute, no cached tables.  connects
\* and made count the connections and the store tables made so far.
NoDB == [_connection |-> 0, _tables |-> EmptyMap, connects |-> 0, made |-> 0]

\* Item._table_types when only the mount point Item has been declared.
NoRegistry == EmptyMap

Init ==
    /\ table \in TableShapes
    /\ store = EmptyMap
    /\ cache = EmptyMap
    /\ item = Unbound
    /\ ret = Ret("init", NoKey, NoOutcome, "no")
    /\ hist = EmptyMap
    /\ probe = NoProbe
    /\ callers = NoCallers
    /\ db = NoDB
    /\ registry = NoRegistry
    /\ field = NoField
    /\ enums = DeclaredEnums

\* x = table.create(hash_key, range_key, **attrs)
Create(key, attrs) ==
    /\ item' = create(table, key[1], key[2], attrs)
    /\ ret' = Ret("create", key, [NoOutcome EXCEPT !.kind = "item"], "no")
    /\ UNCHANGED <<table, store, cache, hist, probe, field, enums, callers, db, registry>>

\* x.put()
ItemPut(accepted, fails) ==
    /\ item.bound
    /\ LET o == put(table, store, cache, item, accepted, fails)
           key == dynamo_key(table, item.data)
       IN  /\ store' = o.store
           /\ cache' = o.cache
           /\ item' = o.item
           /\ ret' = Ret("put", key, o, "no")
           /\ hist' = IF o.raised = "none" /\ o.result
                      THEN MapSet(Overwritten(hist, key, o.wrote), key,
                                  [data |-> item.data,
                                   wt |-> IF o.cacheFailed THEN "failed" ELSE "ok",
                                   dirty |-> FALSE])
                      ELSE MapDel(hist, key)
    /\ UNCHANGED <<table, probe, field, enums, callers, db, registry>>

\* x.delete()
ItemDelete(fails) ==
    /\ item.bound
    /\ LET o == delete(table, store, cache, item, fails)
           key == dynamo_key(table, item.data)
       IN  /\ store' = o.store
           /\ cache' = o.cache
           /\ item' = o.item
           /\ ret' = Ret("delete", key, o, "no")
           /\ hist' = MapDel(hist, key)
    /\ UNCHANGED <<table, probe, field, enums, callers, db, registry>>

\* x = table[key]
GetItem(key, lookupFails, setFails) ==
    /\ LET o == __getitem__(table, store, cache, key, lookupFails, setFails)
       IN  /\ cache' = o.cache
           /\ item' = IF o.kind = "item" THEN o.item ELSE item
           /\ ret' = Ret("get", key, o, AfterDelete(key))
           /\ hist' = Overwritten(hist, dynamo_key(table, o.item.data), o.wrote)
    /\ UNCHANGED <<table, store, probe, field, enums, callers, db, registry>>

\* The cache drops an entry whose duration has run out.
Expire(k) ==
    /\ k \in DOMAIN cache
    /\ cache' = MapDel(cache, k)
    /\ ret' = Ret("expire", NoKey, NoOutcome, "no")
    /\ UNCHANGED <<table, store, item, hist, probe, field, enums, callers, db, registry>>

Next ==
    \/ \E key \in KeyInputs(table), attrs \in AttrInputs : Create(key, attrs)
    \/ \E accepted \in BOOLEAN, fails \in BOOLEAN : ItemPut(accepted, fails)
    \/ \E fails \in BOOLEAN : ItemDelete(fails)
    \/ \E key \in KeyInputs(table), lf \in BOOLEAN, sf \in BOOLEAN : GetItem(key, lf, sf)
    \/ \E k \in DOMAIN cache : Expire(k)

Spec == Init /\ [][Next]_vars

(***************************************************************************)
(* Claims about the Table handle, its store and its cache (Spec).          *)
(***************************************************************************)
HashOnly == table.range_key_name = NoAttr
Caching == table.cache /\ table.cache_duration # None

\* The last call was a get of a key whose last put succeeded, with no put or
\* delete of that key in between, and it returned.
GotLastPut ==
    /\ table.cache
    /\ ret.op = "get"
    /\ ret.raised = "none"
    /\ ret.key \in DOMAIN hist

C2_CacheFailureAbsorbed ==
    ret.op \in {"put", "delete"} /\ ret.storeResult /\ ret.cacheFailed =>
        /\ ret.raised = "none"
        /\ ret.kind = "bool"
        /\ ret.result = ret.storeResult
        /\ ret.op = "put" =>
             ~item.is_new /\ ret.key \in DOMAIN store /\ store[ret.key] = item.data
        /\ ret.op = "delete" => item.is_new /\ ret.key \notin DOMAIN store

\* C2 witness: a delete whose invalidation failed, the stale entry still cached.
C2_Witness ==
    /\ ret.op = "delete" /\ ret.storeResult /\ ret.cacheFailed
    /\ ItemCacheKey(table, item.data) \in DOMAIN cache

\* C3: a put the store rejects returns the failure indicator, raises nothing
\* and leaves the cache, the store and is_new as they were.
C3_RejectedPut ==
    [][ ret'.op = "put" /\ ret'.kind = "bool" /\ ~ret'.storeResult =>
            /\ ret'.raised = "none"
            /\ ret'.result = FALSE
            /\ cache' = cache
            /\ store' = store
            /\ item'.is_new = item.is_new ]_vars

\* C3 witness: a rejected put of a new Record, next to a cache that holds entries.
C3_Witness ==
    /\ ret.op = "put" /\ ret.kind = "bool" /\ ~ret.storeResult
    /\ item.is_new
    /\ cache # EmptyMap

\* C4 (as claimed): a get during which the cache fails still returns and
\* does not raise the cache's error.
C4_CacheNeverNeeded ==
    ret.op = "get" /\ ret.cacheFailed => ret.raised = "none" /\ ret.kind = "item"

\* The unsaved Record get() makes for a key.
IsPlaceholder(key) ==
    /\ ret.kind = "item"
    /\ item.is_new
    /\ item.data = MapSet(EmptyMap, table.hash_key_name, key[1])

AbsentKeyGet ==
    /\ ret.op = "get"
    /\ ret.raised # "CacheError"
    /\ _get_cache_key(table, ret.key[1], ret.key[2]) \notin DOMAIN cache
    /\ \A k \in DOMAIN store : k[1] = ret.key[1] => ret.key[2] # None /\ k[2] # ret.key[2]

\* get() returned one new unsaved Record that carries the requested key.
NewRecordFor(key) ==
    /\ ret.raised = "none"
    /\ ret.kind = "item"
    /\ item.is_new
    /\ item.data[table.hash_key_name] = key[1]
    /\ ~HashOnly => MapGet(item.data, table.range_key_name, None) = key[2]

InitKey ==
    /\ table = TableShape(NoAttr, None, FALSE)
    /\ store = EmptyMap
    /\ cache = EmptyMap
    /\ item = Unbound
    /\ ret = Ret("init", NoKey, NoOutcome, "no")
    /\ hist = EmptyMap
    /\ probe = NoProbe
    /\ callers = NoCallers
    /\ db = NoDB
    /\ registry = NoRegistry
    /\ field = NoField
    /\ enums = DeclaredEnums

\* The cache keys of two triples are derived.
DeriveKeys(a, b) ==
    /\ probe' = [set |-> TRUE, a |-> a, b |-> b, ka |-> CacheKeyOf(a), kb |-> CacheKeyOf(b)]
    /\ UNCHANGED <<table, store, cache, item, ret, hist, field, enums, callers, db, registry>>

NextKey == \E a \in Triples, b \in Triples : DeriveKeys(a, b)

SpecKey == InitKey /\ [][NextKey]_vars

\* C7 (as claimed): two (table, hash_key, range_key) triples have the same
\* cache key if and only if they are the same triple.
C7_CacheKeyInjective ==
    probe.set => ((probe.ka = probe.kb) <=> (probe.a = probe.b))

(***************************************************************************)
(* Field access on a Record (SpecField).  The Item shape declares one      *)
(* Field, of any variant, under the name of the hash key, of the range key *)
(* or of a plain attribute; Records are made by create() and then read,    *)
(* set and deleted through the Field.                                      *)
(***************************************************************************)
FieldNames == {"id", "ts", "visits"}

\* The defaults a Field of a kind is declared with: none, values in the
\* form to_python takes, and producers of such values.
Defaults(kind) ==
    {NONE} \cup
    CASE kind = "Unicode" -> {Str("x"), Str(""), Callable(Str("x"))}
      [] kind = "Integer" -> {Num(0), Num(7), Callable(Num(7))}
      [] kind = "Choice" -> {Member("Access", 1), Callable(Str("FULL_ACCESS"))}
      [] kind = "Enum" -> {Member("Access", 0), Member("Access", 1), Callable(Num(1))}
      [] kind = "Date" -> {Num(EpochOrdinal + 1), Callable(Num(EpochOrdinal + 1))}
      [] kind = "DateTime" -> {Num(SecondsPerDay)}
      [] kind = "ForeignKey" -> {Json("t", Str("b"))}

FieldKinds == {"Unicode", "Integer", "Choice", "Enum", "Date", "DateTime", "ForeignKey"}

Fields ==
    UNION { { Field(n, k, d, r) : n \in FieldNames, d \in Defaults(k), r \in BOOLEAN }
            : k \in FieldKinds }

\* The values callers assign through a Field.
FieldValues ==
    { None, Str("x"), Str("7"), Str("NO_ACCESS"), Str("FULL_ACCESS"), Str("RED"),
      Num(0), Num(1), Num(5), Num(0 - 1),
      Member("Access", 0), Member("Access", 1), Member("Color", 2),
      Date(EpochOrdinal + 1), DateTime(SecondsPerDay, 5), ItemRef("t", Str("b")) }

FieldTables == { TableShape(r, None, FALSE) : r \in {NoAttr, "ts"} }

FieldKeyInputs(tb) ==
    IF tb.range_key_name = NoAttr
    THEN { <<Str("a"), None>> }
    ELSE { <<Str("a"), Num(3)>>, <<Str("a"), None>> }

\* Attributes given to create(): any keyword, a None among them.
FieldAttrInputs == AttrInputs \cup { MapSet(EmptyMap, "visits", None) }

\* The caller's view of the last Field access: the value given, the
\* exception raised, the value returned, and whether the attribute was
\* absent from the raw map when the call was made.
FieldRet(op, value, o, absent) ==
    [op |-> op, value |-> value, raised |-> o.raised, result |-> o.result, absent |-> absent]

InitField ==
    /\ enums = DeclaredEnums
    /\ table \in FieldTables
    /\ field \in Fields
    /\ store = EmptyMap
    /\ cache = EmptyMap
    /\ item = Unbound
    /\ ret = FieldRet("init", None, Accessed("none", None, EmptyMap), FALSE)
    /\ hist = EmptyMap
    /\ probe = NoProbe
    /\ callers = NoCallers
    /\ db = NoDB
    /\ registry = NoRegistry

\* x = table.create(hash_key, range_key, **attrs)
FieldCreate(key, attrs) ==
    /\ item' = create(table, key[1], key[2], attrs)
    /\ ret' = FieldRet("create", None, Accessed("none", None, EmptyMap), FALSE)
    /\ UNCHANGED <<table, store, cache, hist, probe, field, enums, callers, db, registry>>

\* x.<field> = value
FieldSet(value) ==
    /\ item.bound
    /\ LET o == Field__set__(field, table, item.data, value)
       IN  /\ item' = [item EXCEPT !.data = o.data]
           /\ ret' = FieldRet("set", value, o, field.name \notin DOMAIN item.data)
    /\ UNCHANGED <<table, store, cache, hist, probe, field, enums, callers, db, registry>>

\* del x.<field>
FieldDelete(missing) ==
    /\ item.bound
    /\ LET o == Field__delete__(field, table, item.data, missing)
       IN  /\ item' = [item EXCEPT !.data = o.data]
           /\ ret' = FieldRet("delete", None, o, field.name \notin DOMAIN item.data)
    /\ UNCHANGED <<table, store, cache, hist, probe, field, enums, callers, db, registry>>

\* x.<field>
FieldGet(missing) ==
    /\ item.bound
    /\ LET o == Field__get__(field, table, item.data, missing)
       IN  /\ item' = [item EXCEPT !.data = o.data]
           /\ ret' = FieldRet("get", None, o, field.name \notin DOMAIN item.data)
    /\ UNCHANGED <<table, store, cache, hist, probe, field, enums, callers, db, registry>>

NextField ==
    \/ \E key \in FieldKeyInputs(table), attrs \in FieldAttrInputs : FieldCreate(key, attrs)
    \/ \E value \in FieldValues : FieldSet(value)
    \/ \E missing \in MissingLookups : FieldDelete(missing)
    \/ \E missing \in MissingLookups : FieldGet(missing)

SpecField == InitField /\ [][NextField]_vars

(***************************************************************************)
(* Claims about Field access (SpecField).                                  *)
(***************************************************************************)
\* The Field is named as a key attribute of the Record, or is readonly.
Protected ==
    \/ field.name = table.hash_key_name
    \/ field.name = table.range_key_name
    \/ field.readonly

\* C8: setting or deleting through a Field named as the hash key or the range
\* key of the Record, or declared readonly, fails with AttributeError, for
\* every Field variant and every value given (None too), and the raw
\* attribute map is after the failed call what it was before it.
C8_ProtectedFieldWrite ==
    [][ ret'.op \in {"set", "delete"} /\ Protected =>
            /\ ret'.raised = "AttributeError"
            /\ item'.data = item.data ]_vars

\* C8 witness: None was assigned through a readonly Field of a plain
\* attribute that the Record holds; the call failed and the attribute stays.
C8_Witness ==
    /\ ret.op = "set" /\ ret.value = None /\ ret.raised = "AttributeError"
    /\ field.readonly
    /\ field.name \notin {table.hash_key_name, table.range_key_name}
    /\ field.name \in DOMAIN item.data

\* C9 (as claimed): after any sequence of create (with any attributes), Field
\* set, Field delete and Field get on a Record, no key of the raw attribute
\* map is mapped to None.
C9_NoNoneInRawMap ==
    \A name \in DOMAIN item.data : item.data[name] # None

\* C10 (as claimed): a read through a Field whose attribute the Record does
\* not hold never fails, for every Field, readonly ones too; with no default
\* it returns None and leaves the raw map as it is; with a default (a value,
\* or a producer called with the Record) it returns to_python of the default
\* and, when that is truthy, the raw map then holds from_python of it under
\* the Field's name.
C10_AbsentRead ==
    [][ ret'.op = "get" /\ field.name \notin DOMAIN item.data =>
            /\ ret'.raised = "none"
            /\ field.default = NONE => ret'.result = None /\ item'.data = item.data
            /\ field.default # NONE =>
                 LET value == to_python(field, ResolveDefault(field))
                 IN  /\ ret'.result = value.val
                     /\ Truthy(value.val) =>
                          /\ field.name \in DOMAIN item'.data
                          /\ item'.data[field.name] = from_python(field, value.val).val ]_vars

(***************************************************************************)
(* Declaring enumerated types and looking members up (SpecEnum).  Types    *)
(* and members are declared one class statement at a time, in any order;   *)
(* two types may declare a member of the same name.                        *)
(***************************************************************************)
EnumTypes == {"Access", "Color"}
EnumKeys == {"NO_ACCESS", "FULL_ACCESS", "RED"}

\* The keys callers index an enumerated type with: integers (negative and
\* past the end too), names, members of any declared type, and None.
LookupKeys ==
    { Num(i) : i \in (0 - 1)..MaxMembers } \cup { Str(k) : k \in EnumKeys } \cup { None }
    \cup UNION { { Member(c, i - 1) : i \in 1..Len(members[c]) } : c \in DOMAIN members }

\* The caller's view of the last class statement or lookup.
EnumRet(op, cls, idx, o) ==
    [op |-> op, cls |-> cls, idx |-> idx, raised |-> o.raised, result |-> o.val]

InitEnum ==
    /\ enums = NoEnums
    /\ table = TableShape(NoAttr, None, FALSE)
    /\ store = EmptyMap
    /\ cache = EmptyMap
    /\ item = Unbound
    /\ ret = EnumRet("init", "", None, Returned(None))
    /\ hist = EmptyMap
    /\ probe = NoProbe
    /\ callers = NoCallers
    /\ db = NoDB
    /\ registry = NoRegistry
    /\ field = NoField

\* class <cls>(object): __metaclass__ = EnumMeta
EnumDeclareType(cls) ==
    /\ cls \notin DOMAIN members
    /\ enums' = DeclareType(enums, cls)
    /\ ret' = EnumRet("type", cls, None, Returned(None))
    /\ UNCHANGED <<table, store, cache, item, hist, probe, field, callers, db, registry>>

\* class <name>(<cls>): pass
EnumDeclareMember(cls, name) ==
    /\ cls \in DOMAIN members
    /\ Len(members[cls]) < MaxMembers
    /\ \A i \in 1..Len(members[cls]) : members[cls][i] # name
    /\ enums' = DeclareMember(enums, cls, name)
    /\ ret' = EnumRet("member", cls, Str(name), Returned(Num(Len(members[cls]))))
    /\ UNCHANGED <<table, store, cache, item, hist, probe, field, callers, db, registry>>

\* cls[idx]
EnumLookup(cls, idx) ==
    /\ cls \in DOMAIN members
    /\ ret' = EnumRet("lookup", cls, idx, EnumMeta__getitem__(cls, idx))
    /\ UNCHANGED <<table, store, cache, item, hist, probe, field, enums, callers, db, registry>>

NextEnum ==
    \/ \E cls \in EnumTypes : EnumDeclareType(cls)
    \/ \E cls \in EnumTypes, name \in EnumKeys : EnumDeclareMember(cls, name)
    \/ \E cls \in EnumTypes, idx \in LookupKeys : EnumLookup(cls, idx)

SpecEnum == InitEnum /\ [][NextEnum]_vars

(***************************************************************************)
(* Claims about enumerated types (SpecEnum).                               *)
(***************************************************************************)
\* C11 (as claimed): for every enumerated type E declared and every member m
\* of E, whatever types and members were declared after it (other types
\* that use the same member names too), E[index of m], E[name of m] and E[m]
\* are m, and the index a member gets at its declaration is its place in
\* the order of declaration, counted from 0.
C11_LookupReturnsMember ==
    /\ \A cls \in DOMAIN members : \A i \in 1..Len(members[cls]) :
         LET m == Member(cls, i - 1)
         IN  /\ EnumMeta__getitem__(cls, Num(i - 1)) = Returned(m)
             /\ EnumMeta__getitem__(cls, Str(m.v.key)) = Returned(m)
             /\ EnumMeta__getitem__(cls, m) = Returned(m)
    /\ ret.op = "member" =>
         /\ ret.result = Num(Len(members[ret.cls]) - 1)
         /\ members[ret.cls][ret.result.v + 1] = ret.idx.v

\* idx is an index, the name of a member, or a member of cls.
KnownKey(cls, idx) ==
    \/ idx.t = "int" /\ idx.v \in 0..(Len(members[cls]) - 1)
    \/ idx.t = "str" /\ \E i \in 1..Len(members[cls]) : members[cls][i] = idx.v
    \/ idx.t = "member" /\ idx.v.enum = cls

\* C12 (as claimed): E[k] fails with KeyError and returns nothing for every
\* k that is no index 0..n-1 of E, no name of a member of E and no member
\* of E: negative integers, integers past the end, names that only another
\* type declares, members of another type.
C12_UnknownKeyNotFound ==
    ret.op = "lookup" /\ ~KnownKey(ret.cls, ret.idx) => ret.raised = "KeyError"

(***************************************************************************)
(* Conversions of the Field variants there and back (SpecRound).  A typed  *)
(* value goes through from_python and the wire value it gives through      *)
(* to_python, with the enumerated types as the Field declarations use     *)
(* them, or with one more member that takes a name Access has declared.    *)
(***************************************************************************)
\* DeclaredEnums, and then: class NO_ACCESS(Color): pass
ReusedNameEnums == DeclareMember(DeclaredEnums, "Color", "NO_ACCESS")

\* The typed values of a Field variant; for a DateField and a DateTimeField
\* the empty inputs None and 0 too.
TypedValues(f) ==
    CASE f.kind = "Unicode" -> {Str(""), Str("x"), Str("7")}
      [] f.kind = "Integer" -> {Num(0 - 1), Num(0), Num(7)}
      [] f.kind \in {"Choice", "Enum"} ->
           { Member(f.enum_type, i - 1) : i \in 1..Len(members[f.enum_type]) }
      [] f.kind = "Date" -> {None, Num(0), Date(1), Date(EpochOrdinal), Date(EpochOrdinal + 1)}
      [] f.kind = "DateTime" ->
           {None, Num(0), DateTime(0, 0), DateTime(SecondsPerDay, 0), DateTime(SecondsPerDay, 5)}
      [] f.kind = "ForeignKey" -> {ItemRef("t", Str("b"))}

\* The caller's view of the last conversion there and back.
RoundRet(value, wire, back) ==
    [ op |-> "round", value |-> value, wire |-> wire.val,
      raised |-> IF wire.raised # "none" THEN wire.raised ELSE back.raised,
      result |-> back.val ]

InitRound ==
    /\ enums \in {DeclaredEnums, ReusedNameEnums}
    /\ field \in Fields
    /\ table = TableShape(NoAttr, None, FALSE)
    /\ store = EmptyMap
    /\ cache = EmptyMap
    /\ item = Unbound
    /\ ret = [RoundRet(None, Returned(None), Returned(None)) EXCEPT !.op = "init"]
    /\ hist = EmptyMap
    /\ probe = NoProbe
    /\ callers = NoCallers
    /\ db = NoDB
    /\ registry = NoRegistry

\* field.to_python(obj, field.from_python(obj, value))
RoundTrip(value) ==
    /\ LET wire == from_python(field, value)
           back == IF wire.raised = "none" THEN to_python(field, wire.val) ELSE wire
       IN  ret' = RoundRet(value, wire, back)
    /\ UNCHANGED <<table, store, cache, item, hist, probe, field, enums, callers, db, registry>>

NextRound == \E value \in TypedValues(field) : RoundTrip(value)

SpecRound == InitRound /\ [][NextRound]_vars

\* C13 (as claimed): for a UnicodeField, an IntegerField, a ChoiceField, an
\* EnumField and a DateField, and every value v of the Field's typed domain,
\* to_python(from_python(v)) is v; the one exception is the empty input 0 of
\* a DateField, which comes back as None.
C13_RoundTrip ==
    ret.op = "round" /\ field.kind \in {"Unicode", "Integer", "Choice", "Enum", "Date"} =>
        /\ ret.raised = "none"
        /\ \/ ret.result = ret.value
           \/ field.kind = "Date" /\ ret.value = Num(0) /\ ret.result = None

(***************************************************************************)
(* A ChoiceField or an EnumField on a Record (SpecChoice): the Field       *)
(* accesses of SpecField, in a program whose enumerated types are the      *)
(* declared ones, or those with one more member that takes a name Access   *)
(* has declared.                                                           *)
(***************************************************************************)
InitChoice ==
    /\ enums \in {DeclaredEnums, ReusedNameEnums}
    /\ table \in FieldTables
    /\ field \in { f \in Fields : f.kind \in {"Choice", "Enum"} }
    /\ store = EmptyMap
    /\ cache = EmptyMap
    /\ item = Unbound
    /\ ret = FieldRet("init", None, Accessed("none", None, EmptyMap), FALSE)
    /\ hist = EmptyMap
    /\ probe = NoProbe
    /\ callers = NoCallers
    /\ db = NoDB
    /\ registry = NoRegistry

SpecChoice == InitChoice /\ [][NextField]_vars

\* The member of cls that a value names: by its index, by its name, or the
\* member itself; None when the value names no member of cls.
Named(cls, value) ==
    CASE value.t = "int" /\ value.v \in 0..(Len(members[cls]) - 1) -> Member(cls, value.v)
      [] value.t = "str" /\ (\E i \in 1..Len(members[cls]) : members[cls][i] = value.v) ->
           Member(cls, (CHOOSE i \in 1..Len(members[cls]) : members[cls][i] = value.v) - 1)
      [] value.t = "member" /\ value.v.enum = cls -> value
      [] OTHER -> None

\* The last call assigned, through a Field that takes assignments, a value
\* that names a member of the Field's enumerated type.
AssignedMember(r) ==
    /\ r.op = "set"
    /\ ~Protected
    /\ Named(field.enum_type, r.value) # None

\* C14 (as claimed): for a ChoiceField and an EnumField of the same
\* enumerated type, assigning a member given as its name, as its index or as
\* the member itself stores the member's name (ChoiceField) or its index
\* (EnumField), 0 for the first member declared, and the read that follows
\* returns that member.
C14_ChoiceSetThenGet ==
    [][ /\ AssignedMember(ret') =>
             LET m == Named(field.enum_type, ret'.value)
             IN  /\ ret'.raised = "none"
                 /\ field.name \in DOMAIN item'.data
                 /\ item'.data[field.name] =
                        IF field.kind = "Choice" THEN Str(m.v.key) ELSE Num(m.v.index)
        /\ AssignedMember(ret) /\ ret'.op = "get" =>
             /\ ret'.raised = "none"
             /\ ret'.result = Named(field.enum_type, ret.value) ]_vars

(***************************************************************************)
(* Claims about write-through and cache-first reads (Spec).                *)
(***************************************************************************)
\* The last call was a put that the store took, on a handle with a cache,
\* and the cache did not fail.
PutWithCache ==
    /\ ret.op = "put" /\ ret.raised = "none" /\ ret.result
    /\ table.cache
    /\ ~ret.cacheFailed

\* The cache holds, under the cache key of the Record just put, the
\* attributes the store now holds for it, and a get answered by the cache
\* alone returns them.
WrittenThrough ==
    LET k == ItemCacheKey(table, item.data)
        hit == _get_cache(table, cache, ret.key[1], ret.key[2], FALSE)
    IN  /\ k \in DOMAIN cache
        /\ cache[k] = item.data
        /\ store[ret.key] = item.data
        /\ hit.cached.bound
        /\ hit.cached.data = item.data

GetCacheKey(key) == _get_cache_key(table, key[1], key[2])

\* The step is a get that returned, on a handle with a cache, and the cache
\* held an entry for the key.
GetHit ==
    /\ ret'.op = "get" /\ ret'.raised = "none"
    /\ table.cache
    /\ GetCacheKey(ret'.key) \in DOMAIN cache

\* The step is a get that returned, on a handle with a cache that held no
\* entry for the key, and the store answered with a row.
GetMissRow ==
    /\ ret'.op = "get" /\ ret'.raised = "none"
    /\ table.cache
    /\ GetCacheKey(ret'.key) \notin DOMAIN cache
    /\ ret'.kind = "item" /\ ~item'.is_new

\* On a hit the Record is rebuilt from the cached data and the store is not
\* read.
HitServedFromCache ==
    GetHit =>
        /\ ret'.kind = "item"
        /\ item'.data = cache[GetCacheKey(ret'.key)]
        /\ ~ret'.storeResult
        /\ cache' = cache

\* After the step the cache holds the row under the key, and the same get
\* made again is a hit: it returns the row and does not read the store.
RowCached ==
    LET again == __getitem__(table, store', cache', ret'.key, FALSE, FALSE)
    IN  /\ ret'.storeResult
        /\ GetCacheKey(ret'.key) \in DOMAIN cache'
        /\ cache'[GetCacheKey(ret'.key)] = item'.data
        /\ again.kind = "item" /\ ~again.storeResult /\ again.item.data = item'.data

GetReturnedHit ==
    /\ ret'.op = "get" /\ ret'.kind = "item"
    /\ table.cache /\ GetCacheKey(ret'.key) \in DOMAIN cache

\* The step is a get that returned a Record without a cache entry to build
\* it from: the store was read.
GetReturnedRead ==
    /\ ret'.op = "get" /\ ret'.kind = "item"
    /\ ~(table.cache /\ GetCacheKey(ret'.key) \in DOMAIN cache)

\* C18: is_new is true on the Record create returns and on the placeholder
\* a get builds for an absent key; it is false on a Record built from a
\* cache hit or from a row the store returned; a put the store accepted
\* sets it to false, a put that was rejected leaves it as it was; a delete
\* sets it to true; no other step touches it.
C18_IsNewLifecycle ==
    [][ /\ ret'.op = "create" => item'.is_new
        /\ GetReturnedHit => ~item'.is_new
        /\ GetReturnedRead =>
              (item'.is_new <=> dynamo_key(table, item'.data) \notin DOMAIN store)
        /\ (ret'.op = "put" /\ ret'.raised = "none" /\ ret'.result) => ~item'.is_new
        /\ (ret'.op = "put" /\ ~ret'.result) => item'.is_new = item.is_new
        /\ (ret'.op = "delete" /\ ret'.raised = "none") => item'.is_new
        /\ ret'.op = "expire" => item'.is_new = item.is_new
      ]_vars

\* C18 witness: a delete the store carried out has returned, and the Record
\* it was called on is new again.
C18_Witness ==
    /\ ret.op = "delete" /\ ret.raised = "none" /\ ret.storeResult
    /\ item.is_new
    /\ "visits" \in DOMAIN item.data
    /\ dynamo_key(table, item.data) \notin DOMAIN store

\* The raw map of a Record that holds the key attributes of `key` (the
\* range key when the table declares one and the key carries one) and the
\* attributes `attrs`.
CreatedMap(key, attrs) ==
    LET d1 == MapSet(attrs, table.hash_key_name, key[1])
    IN  IF ~HashOnly /\ key[2] # None THEN MapSet(d1, table.range_key_name, key[2]) ELSE d1

\* C20: create(hash_key, range_key, attrs) returns a new unsaved Record
\* (is_new true) whose raw map holds the given key attributes and the given
\* attributes, the range key whenever the table declares one and a range key
\* value is supplied; the store and the cache are left as they were.
C20_CreateFrame ==
    [][ ret'.op = "create" =>
          /\ item'.bound /\ item'.is_new
          /\ \E attrs \in AttrInputs : item'.data = CreatedMap(ret'.key, attrs)
          /\ store' = store
          /\ cache' = cache
      ]_vars

\* The step is a put or a get that changed the cache.
CacheWritten == ret'.op \in {"put", "get"} /\ cache' # cache

put_after_save_unchecked(result) == "put_cache"

\* Item.put after save(): `if not result: return False`, else on to
\* _set_cache().
put_after_save(result) == IF ~result THEN "idle" ELSE "put_cache"

\* Item.delete after the store's delete: on to _delete_cache().
delete_after_store(result) == "delete_cache"

\* Table.__getitem__ after _get_cache(): the cached Record is returned, or
\* the store is read.
get_after_lookup(cached) == IF cached.bound THEN "idle" ELSE "get_store"

\* Table.__getitem__ / get_item after the store read: the row goes on to
\* _set_cache(); ItemNotFound ends in create().
get_after_read(found) == IF found THEN "get_cache" ELSE "idle"

ConcTables == { TableShape(r, d, TRUE) : r \in {NoAttr, "ts"}, d \in {None, Num(60)} }

ConcKeys(tb) ==
    IF tb.range_key_name = NoAttr
    THEN { <<h, None>> : h \in HashKeys }
    ELSE { <<Str("a"), Str("b_c")>>, <<Str("a_b"), Str("c")>> }

\* The caller's view of the last step: who took it, which step, and where
\* in its call the caller was before.
ConcRet(p, step, before) == [op |-> step, caller |-> p, before |-> before]

InitConc ==
    /\ table \in ConcTables
    /\ hist \in { [key |-> k, held |-> {}] : k \in ConcKeys(table) }
    /\ callers = NoCallers
    /\ db = NoDB
    /\ registry = NoRegistry
    /\ store = EmptyMap
    /\ cache = EmptyMap
    /\ item = Unbound
    /\ ret = ConcRet("", "init", "idle")
    /\ probe = NoProbe
    /\ field = NoField
    /\ enums = DeclaredEnums

\* p: x.put(), the store step (save) of a Record of the key.
PutStore(p, attrs, accepted) ==
    /\ callers[p].at = "idle"
    /\ LET x == create(table, hist.key[1], hist.key[2], attrs)
           sv == save(table, store, x.data, accepted)
       IN  /\ store' = sv.store
           /\ hist' = IF sv.result THEN [hist EXCEPT !.held = @ \cup {x.data}] ELSE hist
           /\ callers' = [callers EXCEPT ![p] = [at |-> put_after_save(sv.result), data |-> x.data]]
    /\ ret' = ConcRet(p, "put_store", callers[p].at)
    /\ UNCHANGED <<table, cache, item, probe, field, enums, db, registry>>

\* p: x.put(), the cache step (_set_cache inside try/except).
PutCache(p, fails) ==
    /\ callers[p].at = "put_cache"
    /\ cache' = _set_cache(table, cache, callers[p].data, fails).cache
    /\ callers' = [callers EXCEPT ![p] = Idle]
    /\ ret' = ConcRet(p, "put_cache", callers[p].at)
    /\ UNCHANGED <<table, store, item, hist, probe, field, enums, db, registry>>

\* p: x.delete(), the store step.
DeleteStore(p) ==
    /\ callers[p].at = "idle"
    /\ LET x == create(table, hist.key[1], hist.key[2], EmptyMap)
           sd == store_delete(table, store, x.data)
       IN  /\ store' = sd.store
           /\ callers' = [callers EXCEPT ![p] = [at |-> delete_after_store(sd.result), data |-> x.data]]
    /\ ret' = ConcRet(p, "delete_store", callers[p].at)
    /\ UNCHANGED <<table, cache, item, hist, probe, field, enums, db, registry>>

\* p: x.delete(), the cache step (_delete_cache inside try/except).
DeleteCache(p, fails) ==
    /\ callers[p].at = "delete_cache"
    /\ cache' = _delete_cache(table, cache, callers[p].data, fails).cache
    /\ callers' = [callers EXCEPT ![p] = Idle]
    /\ ret' = ConcRet(p, "delete_cache", callers[p].at)
    /\ UNCHANGED <<table, store, item, hist, probe, field, enums, db, registry>>

\* p: table[key], the cache lookup (_get_cache); a failing cache ends the call.
GetLookup(p, fails) ==
    /\ callers[p].at = "idle"
    /\ LET gc == _get_cache(table, cache, hist.key[1], hist.key[2], fails)
       IN  callers' = [callers EXCEPT ![p] =
                          IF gc.raised THEN Idle
                          ELSE [at |-> get_after_lookup(gc.cached), data |-> gc.cached.data]]
    /\ ret' = ConcRet(p, "get_lookup", callers[p].at)
    /\ UNCHANGED <<table, store, cache, item, hist, probe, field, enums, db, registry>>

\* p: table[key], the store read of get_item.
GetRead(p) ==
    /\ callers[p].at = "get_store"
    /\ callers' = [callers EXCEPT ![p] =
                      [at |-> get_after_read(hist.key \in DOMAIN store),
                       data |-> MapGet(store, hist.key, EmptyMap)]]
    /\ ret' = ConcRet(p, "get_read", callers[p].at)
    /\ UNCHANGED <<table, store, cache, item, hist, probe, field, enums, db, registry>>

\* p: table[key], item._set_cache() of get_item.
GetCache(p, fails) ==
    /\ callers[p].at = "get_cache"
    /\ cache' = _set_cache(table, cache, callers[p].data, fails).cache
    /\ callers' = [callers EXCEPT ![p] = Idle]
    /\ ret' = ConcRet(p, "get_cache", callers[p].at)
    /\ UNCHANGED <<table, store, item, hist, probe, field, enums, db, registry>>

\* p crashes inside a call: the steps it had left are never taken.
Crash(p) ==
    /\ callers[p].at # "idle"
    /\ callers' = [callers EXCEPT ![p] = Idle]
    /\ ret' = ConcRet(p, "crash", callers[p].at)
    /\ UNCHANGED <<table, store, cache, item, hist, probe, field, enums, db, registry>>

NextConc ==
    \E p \in Callers :
        \/ \E attrs \in AttrInputs, accepted \in BOOLEAN : PutStore(p, attrs, accepted)
        \/ \E fails \in BOOLEAN : PutCache(p, fails)
        \/ DeleteStore(p)
        \/ \E fails \in BOOLEAN : DeleteCache(p, fails)
        \/ \E fails \in BOOLEAN : GetLookup(p, fails)
        \/ GetRead(p)
        \/ \E fails \in BOOLEAN : GetCache(p, fails)
        \/ Crash(p)

SpecConc == InitConc /\ [][NextConc]_vars

\* C17: under any interleaving of the get, put and delete calls of two
\* callers on the same key, with cache steps that fail and callers that
\* crash between the store step and the cache step, the value the cache
\* holds for the key is a row the store holds or has held for the key; and
\* within one put or delete the cache step is taken only after the store
\* step has returned.
C17_CacheNeverInvents ==
    /\ GetCacheKey(hist.key) \in DOMAIN cache => cache[GetCacheKey(hist.key)] \in hist.held
    /\ DOMAIN cache \subseteq {GetCacheKey(hist.key)}
    /\ ret.op = "put_cache" => ret.before = "put_cache"
    /\ ret.op = "delete_cache" => ret.before = "delete_cache"
    /\ \A p \in Callers :
         /\ callers[p].at = "put_cache" => callers[p].data \in hist.held
         /\ callers[p].at = "get_cache" => callers[p].data \in hist.held

\* C17 witness: the cache holds a row for the key that the store no longer
\* holds, after a caller crashed between its store step and its cache step.
C17_Witness ==
    /\ ret.op = "crash" /\ ret.before \in {"put_cache", "delete_cache"}
    /\ GetCacheKey(hist.key) \in DOMAIN cache
    /\ hist.key \notin DOMAIN store \/ store[hist.key] # cache[GetCacheKey(hist.key)]

(***************************************************************************)
(* Bulk reads (SpecScan).  scan() and query() return what the store        *)
(* library's scan and query_2 return; keys(), items() and values() iterate *)
(* over scan().  The caller holds one of the objects yielded and calls put *)
(* or delete on it.                                                        *)
(***************************************************************************)
\* An object the store library built from a row: _extend has not been
\* called on it, so cache, duo_table and the key names are the class
\* defaults (None) and is_new is not set by the handle.
Yielded(row) == [bound |-> FALSE, data |-> row, is_new |-> FALSE]

\* Table.scan
scan(tb, st) == { Yielded(st[k]) : k \in DOMAIN st }

\* Table.query for the rows of one hash key.
query(tb, st, hash_key) == { Yielded(st[k]) : k \in { j \in DOMAIN st : j[1] = hash_key } }

\* Table.values
values(tb, st) == scan(tb, st)

\* Table.items: (key, Record) pairs over scan().
items(tb, st) == { <<dynamo_key(tb, i.data), i>> : i \in scan(tb, st) }

\* Table.keys: the keys of the objects of scan().
keys(tb, st) == { dynamo_key(tb, i.data) : i \in scan(tb, st) }

\* The Records a bulk read hands to the caller.
BulkReads == {"scan", "query", "items", "values", "keys"}

BulkRead(op, tb, st, hash_key) ==
    CASE op = "scan" -> scan(tb, st)
      [] op = "query" -> query(tb, st, hash_key)
      [] op = "values" -> values(tb, st)
      [] op = "items" -> { p[2] : p \in items(tb, st) }
      [] op = "keys" -> { i \in scan(tb, st) : dynamo_key(tb, i.data) \in keys(tb, st) }

\* The handle as an Item sees it: Item.cache is the handle's cache once
\* _extend has bound the Item, and the class default None otherwise.
HandleOf(tb, it) == IF it.bound THEN tb ELSE [tb EXCEPT !.cache = FALSE]

\* The classes an object of a bulk read can be of: the class the handle
\* registered for the table, or the store library's own Item class, which
\* has no put().
YieldedClasses == {"registered", "library"}

ScanTables == { TableShape(r, Num(60), TRUE) : r \in {NoAttr, "ts"} }

InitScan ==
    /\ table \in ScanTables
    /\ store = EmptyMap
    /\ cache = EmptyMap
    /\ item = Unbound
    /\ ret = Ret("init", NoKey, NoOutcome, "no")
    /\ hist = EmptyMap
    /\ probe = NoProbe
    /\ callers = NoCallers
    /\ db = NoDB
    /\ registry = NoRegistry
    /\ field = NoField
    /\ enums = DeclaredEnums

\* x = table.create(hash_key, range_key, **attrs)
ScanCreate(key, attrs) ==
    /\ item' = create(table, key[1], key[2], attrs)
    /\ ret' = Ret("create", key, [NoOutcome EXCEPT !.kind = "item"], "no")
    /\ UNCHANGED <<table, store, cache, hist, probe, field, enums, callers, db, registry>>

\* for x in table.scan() / query() / values() / items() / keys(): the
\* caller keeps one of the objects yielded.
ScanYield(op, hash_key, x) ==
    /\ x \in BulkRead(op, table, store, hash_key)
    /\ item' = x
    /\ ret' = Ret(op, dynamo_key(table, x.data), [NoOutcome EXCEPT !.kind = "item"], "no")
    /\ UNCHANGED <<table, store, cache, hist, probe, field, enums, callers, db, registry>>

\* x.put() on the object held.
ScanPut(class, accepted, fails) ==
    /\ item # Unbound
    /\ item.bound => class = "registered"
    /\ LET o == IF class = "library"
                THEN Outcome(store, cache, item, "raise", FALSE, "AttributeError", FALSE,
                             FALSE, "")
                ELSE put(HandleOf(table, item), store, cache, item, accepted, fails)
       IN  /\ store' = o.store
           /\ cache' = o.cache
           /\ item' = o.item
           /\ ret' = Ret("put", dynamo_key(table, item.data), o, "no")
    /\ UNCHANGED <<table, hist, probe, field, enums, callers, db, registry>>

\* x.delete() on the object held.
ScanDelete(fails) ==
    /\ item # Unbound
    /\ LET o == delete(HandleOf(table, item), store, cache, item, fails)
       IN  /\ store' = o.store
           /\ cache' = o.cache
           /\ item' = o.item
           /\ ret' = Ret("delete", dynamo_key(table, item.data), o, "no")
    /\ UNCHANGED <<table, hist, probe, field, enums, callers, db, registry>>

\* The caller changes an attribute of the object held: x['visits'] = n.
ScanEdit(n) ==
    /\ item # Unbound
    /\ item' = [item EXCEPT !.data = MapSet(@, "visits", Num(n))]
    /\ ret' = Ret("edit", dynamo_key(table, item.data), NoOutcome, "no")
    /\ UNCHANGED <<table, store, cache, hist, probe, field, enums, callers, db, registry>>

NextScan ==
    \/ \E key \in KeyInputs(table), attrs \in AttrInputs : ScanCreate(key, attrs)
    \/ \E op \in BulkReads, h \in HashKeys, x \in scan(table, store) : ScanYield(op, h, x)
    \/ \E class \in YieldedClasses, accepted \in BOOLEAN, fails \in BOOLEAN :
          ScanPut(class, accepted, fails)
    \/ \E fails \in BOOLEAN : ScanDelete(fails)
    \/ \E n \in 0..MaxValue : ScanEdit(n)

SpecScan == InitScan /\ [][NextScan]_vars

\* C19: every Record a bulk read (scan, query, keys, items, values) hands
\* back is bound to the handle as a Record of get or create is; so a put on
\* it that the store accepted, with a cache that does not fail, leaves the
\* Record's data in the cache under its key, and a delete on it leaves no
\* cache entry under its key.
C19_BulkReadsWrapped ==
    [][ /\ ret'.op \in BulkReads => item'.bound
        /\ (ret'.op = "put" /\ ret'.raised = "none" /\ ret'.result /\ ~ret'.cacheFailed) =>
              /\ ItemCacheKey(table, item.data) \in DOMAIN cache'
              /\ cache'[ItemCacheKey(table, item.data)] = item.data
        /\ (ret'.op = "delete" /\ ret'.raised = "none" /\ ~ret'.cacheFailed) =>
              ItemCacheKey(table, item.data) \notin DOMAIN cache'
      ]_vars

(***************************************************************************)
(* The connection manager (SpecDB).  db._connection is 0 while the object  *)
(* has no _connection attribute and the number of the connection otherwise;*)
(* db._tables maps a table name to the number of the store table object    *)
(* made for it.  The manager's side cache is the cache of the model; the   *)
(* handle of table "t" writes Records into it.                             *)
(***************************************************************************)
MaxConnects == 2
MaxBindings == 3

\* DynamoDB.connection: connect when there is no _connection; `connects`
\* tells whether boto.connect_dynamodb returns or raises.
connection(d, connects) ==
    IF d._connection = 0
    THEN IF connects
         THEN [raised |-> FALSE,
               db |-> [d EXCEPT !._connection = d.connects + 1, !.connects = @ + 1]]
         ELSE [raised |-> TRUE, db |-> d]
    ELSE [raised |-> FALSE, db |-> d]

\* reset that leaves the cached tables in place.
reset_connection_only(d) == [d EXCEPT !._connection = 0]

\* DynamoDB.reset
reset(d) == [d EXCEPT !._connection = 0, !._tables = EmptyMap]

\* DynamoDB.__getitem__ up to the handle: the store table of the name is
\* made and kept if _tables has none.  The key of a lookup is a table name
\* ("name"), a (name, Table class) pair ("pair"), or a Table class in the
\* place of the name ("class").
bind(d, table_name) ==
    IF table_name \notin DOMAIN d._tables
    THEN [d EXCEPT !._tables = MapSet(@, table_name, d.made + 1), !.made = @ + 1]
    ELSE d

\* What a step of the manager hands back.
DBRet(op, name, raised, binding, conn, cls) ==
    [op |-> op, name |-> name, raised |-> raised, binding |-> binding, connection |-> conn,
     cls |-> cls]

InitDB ==
    /\ table = TableShape(NoAttr, Num(60), TRUE)
    /\ store = EmptyMap
    /\ cache = EmptyMap
    /\ item = Unbound
    /\ ret = DBRet("init", "", FALSE, 0, 0, "")
    /\ hist = EmptyMap
    /\ probe = NoProbe
    /\ callers = NoCallers
    /\ db = NoDB
    /\ registry = NoRegistry
    /\ field = NoField
    /\ enums = DeclaredEnums

\* db[key]
DBLookup(form, table_name, connects) ==
    /\ table_name \notin DOMAIN db._tables => db.made < MaxBindings
    /\ db._connection = 0 /\ connects => db.connects < MaxConnects
    /\ LET d1 == bind(db, table_name)
           cls == IF form = "pair" THEN "model" ELSE IF table_name \in DeclaredTables
                                                      THEN table_name ELSE "Table"
           c == connection(d1, connects)
       IN  /\ db' = c.db
           /\ ret' = IF c.raised
                     THEN DBRet("lookup", table_name, TRUE, 0, 0, "")
                     ELSE DBRet("lookup", table_name, FALSE, d1._tables[table_name],
                                c.db._connection, cls)
    /\ UNCHANGED <<table, store, cache, item, hist, probe, field, enums, callers, registry>>

\* db.connection
DBConnection(connects) ==
    /\ db._connection = 0 /\ connects => db.connects < MaxConnects
    /\ LET c == connection(db, connects)
       IN  /\ db' = c.db
           /\ ret' = DBRet("connection", "", c.raised, 0, c.db._connection, "")
    /\ UNCHANGED <<table, store, cache, item, hist, probe, field, enums, callers, registry>>

\* db.reset()
DBReset ==
    /\ db' = reset(db)
    /\ ret' = DBRet("reset", "", FALSE, 0, 0, "")
    /\ UNCHANGED <<table, store, cache, item, hist, probe, field, enums, callers, registry>>

\* x = handle.create(hash_key, **attrs); x.put() on the handle of "t": the
\* Record goes to the store and to the side cache.
DBPut(key, attrs) ==
    /\ LET o == put(table, store, cache, create(table, key[1], key[2], attrs), TRUE, FALSE)
       IN  /\ store' = o.store
           /\ cache' = o.cache
           /\ item' = o.item
           /\ ret' = DBRet("put", "t", FALSE, 0, 0, "")
    /\ UNCHANGED <<table, hist, probe, field, enums, callers, db, registry>>

NextDB ==
    \/ \E form \in {"name", "pair", "class"}, n \in {"t", "x"}, connects \in BOOLEAN :
          DBLookup(form, n, connects)
    \/ \E connects \in BOOLEAN : DBConnection(connects)
    \/ DBReset
    \/ \E key \in KeyInputs(table), attrs \in AttrInputs : DBPut(key, attrs)

SpecDB == InitDB /\ [][NextDB]_vars

\* C21: the connection is absent until first use, and is made only when it
\* is absent, so at most once between resets; a lookup makes and keeps the
\* binding of its table name only if the name has none and reuses it
\* otherwise, leaving the other bindings alone; reset removes the connection
\* and every binding and leaves the side cache as it was; a lookup after a
\* reset returns a handle on a new binding and a connection.
C21_ManagerLifecycle ==
    [][ /\ db'.connects # db.connects =>
              /\ db._connection = 0 /\ db'._connection # 0
              /\ ret'.op \in {"lookup", "connection"}
        /\ (db._connection # 0 /\ ret'.op # "reset") => db'._connection = db._connection
        /\ ret'.op = "lookup" =>
              /\ \A n \in DOMAIN db._tables : n \in DOMAIN db'._tables
                                                /\ db'._tables[n] = db._tables[n]
              /\ DOMAIN db'._tables = DOMAIN db._tables \cup {ret'.name}
              /\ ret'.name \notin DOMAIN db._tables => db'._tables[ret'.name] = db.made + 1
              /\ ~ret'.raised => /\ ret'.binding = db'._tables[ret'.name]
                                 /\ ret'.connection = db'._connection
                                 /\ ret'.connection # 0
        /\ ret'.op = "reset" =>
              /\ db'._connection = 0
              /\ db'._tables = EmptyMap
              /\ cache' = cache
      ]_vars

\* C21 witness: a lookup after a reset has returned a handle on the second
\* connection and on a binding made anew, with the side cache still filled.
C21_Witness ==
    /\ ret.op = "lookup" /\ ~ret.raised
    /\ db.connects = 2 /\ ret.connection = 2
    /\ db.made > 1 /\ ret.binding = db.made
    /\ cache # EmptyMap

(***************************************************************************)
(* The registry of Item classes (SpecRegistry).  registry is               *)
(* Item._table_types, a defaultdict whose factory returns the mount point  *)
(* Item; a class statement with base Item registers the new class under    *)
(* its table_name, which is None for a class that declares none.  hist     *)
(* remembers the class last registered under each name.                    *)
(***************************************************************************)
\* The classes declared: subclasses of Item, and the mount point itself.
Shapes == {"S1", "S2"}
FallbackShape == "Item"

RegistryNames == {Str("t"), Str("x"), None}

\* A class statement that keeps the class registered first under a name.
register_first_wins(reg, table_name, cls) ==
    IF table_name \in DOMAIN reg THEN reg ELSE MapSet(reg, table_name, cls)

\* _TableMeta.__init__ for a subclass: cls._table_types[cls.table_name] = cls
register(reg, table_name, cls) == MapSet(reg, table_name, cls)

\* Item._table_types[table_name]: a defaultdict stores the factory's value
\* under a key it does not have, and returns it.
resolve(reg, table_name) ==
    IF table_name \in DOMAIN reg
    THEN [shape |-> reg[table_name], registry |-> reg]
    ELSE [shape |-> FallbackShape, registry |-> MapSet(reg, table_name, FallbackShape)]

RegRet(op, name, shape) == [op |-> op, name |-> name, shape |-> shape]

InitRegistry ==
    /\ table = TableShape(NoAttr, None, FALSE)
    /\ store = EmptyMap
    /\ cache = EmptyMap
    /\ item = Unbound
    /\ ret = RegRet("init", None, "")
    /\ hist = EmptyMap
    /\ probe = NoProbe
    /\ callers = NoCallers
    /\ db = NoDB
    /\ registry = NoRegistry
    /\ field = NoField
    /\ enums = DeclaredEnums

\* class cls(Item): table_name = ...
Register(table_name, cls) ==
    /\ registry' = register(registry, table_name, cls)
    /\ hist' = MapSet(hist, table_name, cls)
    /\ ret' = RegRet("register", table_name, cls)
    /\ UNCHANGED <<table, store, cache, item, probe, field, enums, callers, db>>

\* Item._table_types[table_name], as create, get_item and _get_cache do.
Resolve(table_name) ==
    /\ LET r == resolve(registry, table_name)
       IN  /\ registry' = r.registry
           /\ ret' = RegRet("resolve", table_name, r.shape)
    /\ UNCHANGED <<table, store, cache, item, hist, probe, field, enums, callers, db>>

NextRegistry ==
    \/ \E n \in RegistryNames, cls \in Shapes : Register(n, cls)
    \/ \E n \in RegistryNames : Resolve(n)

SpecRegistry == InitRegistry /\ [][NextRegistry]_vars

\* What a name resolves to in a registry.
ResolvesTo(reg, table_name) == resolve(reg, table_name).shape

\* C22: after any sequence of register and resolve calls, resolve(name)
\* returns the shape registered last under the name, or the fallback shape
\* when none was registered; a resolve changes what no name resolves to; a
\* register changes what its own name resolves to and nothing else; no
\* name is ever removed from the registry.
C22_Registry ==
    [][ /\ ret'.op = "resolve" =>
              /\ ret'.shape = IF ret'.name \in DOMAIN hist THEN hist[ret'.name]
                              ELSE FallbackShape
              /\ \A n \in RegistryNames : ResolvesTo(registry', n) = ResolvesTo(registry, n)
        /\ ret'.op = "register" =>
              /\ ResolvesTo(registry', ret'.name) = ret'.shape
              /\ \A n \in RegistryNames \ {ret'.name} :
                    ResolvesTo(registry', n) = ResolvesTo(registry, n)
        /\ \A n \in DOMAIN registry : n \in DOMAIN registry'
        /\ \A n \in DOMAIN hist : n \in DOMAIN registry' /\ n \in DOMAIN hist'
      ]_vars

\* C22 witness: a registered name resolves to its shape after a name that
\* was never registered was resolved to the fallback, which the defaultdict
\* has stored.
C22_Witness ==
    /\ ret.op = "resolve" /\ ret.name = Str("t") /\ ret.shape = "S2"
    /\ Str("x") \in DOMAIN registry /\ registry[Str("x")] = FallbackShape
    /\ Str("x") \notin DOMAIN hist

====
